---- MODULE Spec2Model ----
(***************************************************************************)
(* A model of the FastAPI demo server: the two process-wide mappings of    *)
(* services.py (_request_stats, _in_memory_cache), the service functions   *)
(* that read and write them, and the route handlers of api.py that call    *)
(* them.  Requests are handled one at a time (one action per request).     *)
(*                                                                         *)
(* Representation.  A Python dict is a TLA+ function whose DOMAIN is the   *)
(* set of keys present.  An Optional value is a set with at most one       *)
(* element (None is the empty set).  A JSON body is a record               *)
(* [kind, members]: kind "null" for JSON null, kind "object" for an object *)
(* whose members are a set of <<name, number>> pairs.  A str on which the  *)
(* code does more than compare for equality (strip, len, split) is a       *)
(* sequence of one-character strings.  datetime.now() reads the variable   *)
(* now, a wall clock that the environment advances (Tick).  A float        *)
(* result that round(x, 2) produces is carried as an integer number of     *)
(* hundredths.                                                             *)
(***************************************************************************)
EXTENDS Integers, Sequences, FiniteSets, TLC

VARIABLES
    _request_stats,    \* services.py:16  Dict[str, int]
    _in_memory_cache,  \* services.py:15  Dict[str, Dict[str, Any]]
    now,               \* the wall clock datetime.now() reads
    response,          \* the last request and the response it got
    received,          \* history: requests received, per endpoint name
    called,            \* history: handler invocations, per endpoint name
    pre,               \* history: the two mappings before the last request
    last_set,          \* history: per key, the value the last set of it sent
                       \* and the created_at that set returned
    threads,           \* the worker threads of the pool: position and locals
    built              \* history: the entries the set requests have built

vars == <<_request_stats, _in_memory_cache, now, response, received, called,
          pre, last_set, threads, built>>

(***************************************************************************)
(* Bounds of the model.                                                    *)
(***************************************************************************)
MaxRequests == 3
MaxTime == 1

(***************************************************************************)
(* Python values.                                                          *)
(***************************************************************************)
None == {}

Some(x) == {x}

Unwrap(opt) == CHOOSE x \in opt : TRUE

EmptyDict == <<>>

DictGet(d, k, default) == IF k \in DOMAIN d THEN d[k] ELSE default

DictSet(d, k, v) == [x \in (DOMAIN d) \cup {k} |-> IF x = k THEN v ELSE d[x]]

RECURSIVE SumOver(_, _)
SumOver(d, keys) ==
    IF keys = {} THEN 0
    ELSE LET k == CHOOSE x \in keys : TRUE
         IN  d[k] + SumOver(d, keys \ {k})

DictValuesSum(d) == SumOver(d, DOMAIN d)

JsonNull == [kind |-> "null", members |-> {}]

JsonObject(members) == [kind |-> "object", members |-> members]

(***************************************************************************)
(* config.py                                                               *)
(***************************************************************************)
api_key == "demo-key-12345"

(***************************************************************************)
(* services.py: the store.                                                 *)
(***************************************************************************)
update_request_stats_keeps_first(stats, endpoint) ==
    IF endpoint \in DOMAIN stats THEN stats ELSE DictSet(stats, endpoint, 1)

update_request_stats(stats, endpoint) ==
    DictSet(stats, endpoint, DictGet(stats, endpoint, 0) + 1)

get_statistics_counts_sets(stats, cache) ==
    [total_requests |-> DictValuesSum(stats),
     endpoint_counts |-> stats,
     average_response_time_ms |-> 0,
     cache_size |-> DictGet(stats, "set_cache", 0)]

get_statistics(stats, cache) ==
    [total_requests |-> DictValuesSum(stats),
     endpoint_counts |-> stats,
     average_response_time_ms |-> 0,
     cache_size |-> Cardinality(DOMAIN cache)]

get_cache_value(cache, key) ==
    IF key \in DOMAIN cache THEN Some(cache[key]) ELSE None

\* The entry set_cache_value builds, and its store into the mapping.
new_cache_entry(value, t) == [value |-> value, created_at |-> t, exists |-> TRUE]

store_cache_entry_keeps_created_at(cache, key, entry) ==
    IF key \in DOMAIN cache
    THEN DictSet(cache, key, [cache[key] EXCEPT !.value = entry.value])
    ELSE DictSet(cache, key, entry)

store_cache_entry(cache, key, entry) == DictSet(cache, key, entry)

set_cache_value_merges(cache, key, value, t) ==
    LET old == DictGet(cache, key, [value |-> JsonNull])
        entry == [value |-> IF old.value.kind = "object" /\ value.kind = "object"
                            THEN JsonObject(old.value.members \cup value.members)
                            ELSE value,
                  created_at |-> t,
                  exists |-> TRUE]
    IN  [cache |-> DictSet(cache, key, entry), entry |-> entry]

set_cache_value(cache, key, value, t) ==
    LET entry == new_cache_entry(value, t)
    IN  [cache |-> store_cache_entry(cache, key, entry), entry |-> entry]

(***************************************************************************)
(* api.py: the handlers of the store.  A handler takes the two mappings,   *)
(* its arguments and the clock reading, and yields the mappings after it   *)
(* and the response (status and body).                                     *)
(***************************************************************************)
get_stats(stats, cache) ==
    LET stats1 == update_request_stats(stats, "stats")
    IN  [stats |-> stats1, cache |-> cache, status |-> 200,
         body |-> get_statistics(stats1, cache)]

get_cache_restamps(stats, cache, key, t) ==
    LET stats1 == update_request_stats(stats, "get_cache")
        entry == get_cache_value(cache, key)
    IN  [stats |-> stats1, cache |-> cache, status |-> 200,
         body |-> [key |-> key,
                   value |-> IF entry = None THEN JsonNull ELSE Unwrap(entry).value,
                   created_at |-> t,
                   exists |-> entry # None]]

get_cache_tests_value(stats, cache, key, t) ==
    LET stats1 == update_request_stats(stats, "get_cache")
        entry == get_cache_value(cache, key)
    IN  [stats |-> stats1, cache |-> cache, status |-> 200,
         body |-> IF entry = None \/ Unwrap(entry).value = JsonNull
                  THEN [key |-> key, value |-> JsonNull, created_at |-> t,
                        exists |-> FALSE]
                  ELSE [key |-> key, value |-> Unwrap(entry).value,
                        created_at |-> Unwrap(entry).created_at,
                        exists |-> TRUE]]

get_cache_creates_on_miss(stats, cache, key, t) ==
    LET stats1 == update_request_stats(stats, "get_cache")
        entry == get_cache_value(cache, key)
    IN  IF entry = None
        THEN [stats |-> stats1,
              cache |-> DictSet(cache, key, new_cache_entry(JsonNull, t)),
              status |-> 200,
              body |-> [key |-> key, value |-> JsonNull, created_at |-> t,
                        exists |-> FALSE]]
        ELSE [stats |-> stats1, cache |-> cache, status |-> 200,
              body |-> [key |-> key, value |-> Unwrap(entry).value,
                        created_at |-> Unwrap(entry).created_at,
                        exists |-> TRUE]]

get_cache(stats, cache, key, t) ==
    LET stats1 == update_request_stats(stats, "get_cache")
        entry == get_cache_value(cache, key)
    IN  [stats |-> stats1, cache |-> cache, status |-> 200,
         body |-> IF entry = None
                  THEN [key |-> key, value |-> JsonNull, created_at |-> t,
                        exists |-> FALSE]
                  ELSE [key |-> key, value |-> Unwrap(entry).value,
                        created_at |-> Unwrap(entry).created_at,
                        exists |-> TRUE]]

set_cache(stats, cache, key, value, t) ==
    LET stats1 == update_request_stats(stats, "set_cache")
        stored == set_cache_value(cache, key, value, t)
    IN  [stats |-> stats1, cache |-> stored.cache, status |-> 200,
         body |-> [key |-> key, value |-> stored.entry.value,
                   created_at |-> stored.entry.created_at, exists |-> TRUE]]

(***************************************************************************)
(* services.py: mock data and pure helpers.                                *)
(***************************************************************************)
JOKES == <<
    [joke |-> "Why don't scientists trust atoms? Because they make up everything!",
     category |-> "science", id |-> 1],
    [joke |-> "Why did the scarecrow win an award? He was outstanding in his field!",
     category |-> "general", id |-> 2],
    [joke |-> "Why don't eggs tell jokes? They'd crack each other up!",
     category |-> "food", id |-> 3],
    [joke |-> "What do you call a fake noodle? An impasta!",
     category |-> "food", id |-> 4],
    [joke |-> "Why did the math book look so sad? Because it had too many problems!",
     category |-> "education", id |-> 5] >>

\* random.choice(JOKES): any entry of the list.
get_random_joke == {JOKES[i] : i \in DOMAIN JOKES}

\* A rational number num/den with den > 0 (the exact value of a float of the
\* model's inputs).
Rational(num, den) == [num |-> num, den |-> den]

Times(x, y) == Rational(x.num * y.num, x.den * y.den)

\* round(x, 2) of Python 3: to the nearest hundredth, an exact tie to the
\* even one.  The result is the number of hundredths.
round(x) ==
    LET n == x.num * 100
        q == n \div x.den
        r == n % x.den
    IN  IF 2 * r < x.den THEN q
        ELSE IF 2 * r > x.den THEN q + 1
        ELSE IF q % 2 = 0 THEN q ELSE q + 1

\* sum(numbers): the left fold from 0.
RECURSIVE SumPrefix(_, _)
SumPrefix(numbers, n) ==
    IF n = 0 THEN 0 ELSE SumPrefix(numbers, n - 1) + numbers[n]

sum(numbers) == SumPrefix(numbers, Len(numbers))

\* max(numbers), min(numbers): one pass that keeps the best element so far.
RECURSIVE max(_)
max(numbers) ==
    IF Len(numbers) = 1 THEN numbers[1]
    ELSE LET best == max(SubSeq(numbers, 1, Len(numbers) - 1))
             x == numbers[Len(numbers)]
         IN  IF x > best THEN x ELSE best

RECURSIVE min(_)
min(numbers) ==
    IF Len(numbers) = 1 THEN numbers[1]
    ELSE LET best == min(SubSeq(numbers, 1, Len(numbers) - 1))
             x == numbers[Len(numbers)]
         IN  IF x < best THEN x ELSE best

\* The value is Some(hundredths), or None where the code raises ValueError.
process_numbers_floor_average(numbers, operation, multiplier) ==
    IF operation = "sum"
    THEN Some(round(Times(Rational(sum(numbers), 1), multiplier)))
    ELSE IF operation = "average"
    THEN Some(round(Times(Rational(sum(numbers) \div Len(numbers), 1), multiplier)))
    ELSE IF operation = "max"
    THEN Some(round(Times(Rational(max(numbers), 1), multiplier)))
    ELSE IF operation = "min"
    THEN Some(round(Times(Rational(min(numbers), 1), multiplier)))
    ELSE None

process_numbers(numbers, operation, multiplier) ==
    IF operation = "sum"
    THEN Some(round(Times(Rational(sum(numbers), 1), multiplier)))
    ELSE IF operation = "average"
    THEN Some(round(Times(Rational(sum(numbers), Len(numbers)), multiplier)))
    ELSE IF operation = "max"
    THEN Some(round(Times(Rational(max(numbers), 1), multiplier)))
    ELSE IF operation = "min"
    THEN Some(round(Times(Rational(min(numbers), 1), multiplier)))
    ELSE None

(***************************************************************************)
(* models.py: the request models.  A request body is given as a record of  *)
(* Optional fields; the model is Some(validated request) or None where     *)
(* pydantic raises a validation error (FastAPI then answers 422 and the    *)
(* handler is not called).                                                 *)
(***************************************************************************)
Operations == {"sum", "average", "max", "min"}

MaxNumbers == 100

ProcessDataRequest(body) ==
    LET multiplier == IF body.multiplier = None THEN Rational(1, 1)
                      ELSE Unwrap(body.multiplier)
    IN  IF /\ Len(body.numbers) >= 1
           /\ Len(body.numbers) <= MaxNumbers
           /\ body.operation \in Operations
           /\ multiplier.num > 0
        THEN Some([numbers |-> body.numbers, operation |-> body.operation,
                   multiplier |-> multiplier])
        ELSE None

Whitespace == {" "}

\* str.strip(): drop the whitespace at both ends.
RECURSIVE lstrip(_)
lstrip(s) ==
    IF s # <<>> /\ s[1] \in Whitespace THEN lstrip(Tail(s)) ELSE s

RECURSIVE rstrip(_)
rstrip(s) ==
    IF s # <<>> /\ s[Len(s)] \in Whitespace
    THEN rstrip(SubSeq(s, 1, Len(s) - 1)) ELSE s

strip(s) == rstrip(lstrip(s))

\* [tag.strip() for tag in tags if tag.strip()]
RECURSIVE cleaned_tags(_)
cleaned_tags(tags) ==
    IF tags = <<>> THEN <<>>
    ELSE IF strip(tags[1]) # <<>>
    THEN <<strip(tags[1])>> \o cleaned_tags(Tail(tags))
    ELSE cleaned_tags(Tail(tags))

MaxTags == 10

\* ValidationRequest.validate_tags: Some(cleaned) or None (ValueError).
validate_tags(tags) ==
    LET cleaned == cleaned_tags(tags)
    IN  IF Len(cleaned) > MaxTags THEN None ELSE Some(cleaned)

\* The positions of character c in s.
Positions(s, c) == {i \in DOMAIN s : s[i] = c}

\* EmailStr, as far as the inputs of the model go: one "@", a local part,
\* and a domain of dot-separated non-empty labels with at least one dot.
EmailStr(email) ==
    /\ Cardinality(Positions(email, "@")) = 1
    /\ LET at == CHOOSE i \in Positions(email, "@") : TRUE
           domain == SubSeq(email, at + 1, Len(email))
       IN  /\ at > 1
           /\ " " \notin {email[i] : i \in DOMAIN email}
           /\ Positions(domain, ".") # {}
           /\ domain[1] # "."
           /\ domain[Len(domain)] # "."
           /\ \A i \in Positions(domain, ".") : i + 1 \notin Positions(domain, ".")

MinNameLength == 1

MaxNameLength == 100

MinAge == 0

MaxAge == 150

\* The field constraints run first (max_length on the raw tags among them);
\* the "after" field validator validate_tags runs on a list that passed them.
ValidationRequest(body) ==
    LET tags == IF body.tags = None THEN <<>> ELSE Unwrap(body.tags)
    IN  IF /\ Len(body.name) >= MinNameLength
           /\ Len(body.name) <= MaxNameLength
           /\ body.age >= MinAge
           /\ body.age <= MaxAge
           /\ EmailStr(body.email)
           /\ Len(tags) <= MaxTags
           /\ validate_tags(tags) # None
        THEN Some([name |-> body.name, age |-> body.age, email |-> body.email,
                   tags |-> Unwrap(validate_tags(tags))])
        ELSE None

(***************************************************************************)
(* api.py: the other handlers.  They do not touch the cache: they take the *)
(* stats mapping and yield it together with the response.                  *)
(***************************************************************************)
get_joke(stats, joke_data) ==
    [stats |-> update_request_stats(stats, "joke"), status |-> 200,
     body |-> joke_data]

get_random_uuid(stats, uuid) ==
    [stats |-> update_request_stats(stats, "random_uuid"), status |-> 200,
     body |-> [uuid |-> uuid]]

\* email.split("@")[1]: what lies between the first "@" and the next one.
SplitSecond(s, c) ==
    LET first == CHOOSE i \in Positions(s, c) : \A j \in Positions(s, c) : i <= j
        rest == SubSeq(s, first + 1, Len(s))
    IN  IF Positions(rest, c) = {} THEN rest
        ELSE LET next == CHOOSE i \in Positions(rest, c) :
                             \A j \in Positions(rest, c) : i <= j
             IN  SubSeq(rest, 1, next - 1)

AdultAge == 18

validate_data_adult_above(stats, request, strict) ==
    [stats |-> update_request_stats(stats, "validate"), status |-> 200,
     body |-> [success |-> TRUE,
               message |-> "Data validated successfully",
               processed_data |->
                   [name_length |-> Len(request.name),
                    age_group |-> IF request.age > AdultAge THEN "adult" ELSE "minor",
                    email_domain |-> IF Positions(request.email, "@") # {}
                                     THEN Some(SplitSecond(request.email, "@"))
                                     ELSE None,
                    tag_count |-> Len(request.tags),
                    strict_mode |-> strict]]]

validate_data(stats, request, strict) ==
    [stats |-> update_request_stats(stats, "validate"), status |-> 200,
     body |-> [success |-> TRUE,
               message |-> "Data validated successfully",
               processed_data |->
                   [name_length |-> Len(request.name),
                    age_group |-> IF request.age >= AdultAge THEN "adult" ELSE "minor",
                    email_domain |-> IF Positions(request.email, "@") # {}
                                     THEN Some(SplitSecond(request.email, "@"))
                                     ELSE None,
                    tag_count |-> Len(request.tags),
                    strict_mode |-> strict]]]

get_protected_resource_counts_successes(stats, x_api_key, uuid, t) ==
    IF x_api_key # api_key
    THEN [stats |-> stats, status |-> 401, body |-> [detail |-> "Invalid API key"]]
    ELSE [stats |-> update_request_stats(stats, "protected"), status |-> 200,
          body |-> [message |-> "Access granted to protected resource",
                    resource_id |-> uuid, access_time |-> t,
                    permissions |-> <<"read", "write">>]]

get_protected_resource_checks_presence(stats, x_api_key, uuid, t) ==
    IF x_api_key = ""
    THEN [stats |-> update_request_stats(stats, "protected"), status |-> 401,
          body |-> [detail |-> "Invalid API key"]]
    ELSE [stats |-> update_request_stats(stats, "protected"), status |-> 200,
          body |-> [message |-> "Access granted to protected resource",
                    resource_id |-> uuid, access_time |-> t,
                    permissions |-> <<"read", "write">>]]

get_protected_resource(stats, x_api_key, uuid, t) ==
    LET stats1 == update_request_stats(stats, "protected")
    IN  IF x_api_key # api_key
        THEN [stats |-> stats1, status |-> 401,
              body |-> [detail |-> "Invalid API key"]]
        ELSE [stats |-> stats1, status |-> 200,
              body |-> [message |-> "Access granted to protected resource",
                        resource_id |-> uuid, access_time |-> t,
                        permissions |-> <<"read", "write">>]]

process_data(stats, request, t) ==
    LET stats1 == update_request_stats(stats, "process")
        result == process_numbers(request.numbers, request.operation,
                                  request.multiplier)
    IN  IF result = None
        THEN [stats |-> stats1, status |-> 400,
              body |-> [detail |-> "Unknown operation"]]
        ELSE [stats |-> stats1, status |-> 200,
              body |-> [operation |-> request.operation,
                        result |-> Unwrap(result),
                        input_count |-> Len(request.numbers),
                        processed_at |-> t]]

QUOTES ==
    << [quote |-> "The only way to do great work is to love what you do.",
        author |-> "Steve Jobs", category |-> "motivation"],
       [quote |-> "Innovation distinguishes between a leader and a follower.",
        author |-> "Steve Jobs", category |-> "business"],
       [quote |-> "Life is what happens to you while you're busy making other plans.",
        author |-> "John Lennon", category |-> "life"],
       [quote |-> "The future belongs to those who believe in the beauty of their dreams.",
        author |-> "Eleanor Roosevelt", category |-> "inspiration"],
       [quote |-> "It is during our darkest moments that we must focus to see the light.",
        author |-> "Aristotle", category |-> "philosophy"] >>

\* random.choice(QUOTES): any entry of the list.
get_random_quote == {QUOTES[i] : i \in DOMAIN QUOTES}

\* The uptime is what the clock has advanced since the start.
get_system_info(t) ==
    [python_version |-> "3", server_time |-> t, uptime_seconds |-> t,
     status |-> "operational"]

\* The mock never raises.
fetch_external_data_mock(url, t) ==
    [status |-> "success",
     data |-> [message |-> "This is a mock response", timestamp |-> t],
     url |-> url]

root(stats) ==
    [stats |-> update_request_stats(stats, "root"), status |-> 200,
     body |-> [html |-> "<!DOCTYPE html>"]]

system_info(stats, t) ==
    [stats |-> update_request_stats(stats, "system_info"), status |-> 200,
     body |-> get_system_info(t)]

get_quote(stats, quote_data) ==
    [stats |-> update_request_stats(stats, "random_quote"), status |-> 200,
     body |-> quote_data]

external_data(stats, t) ==
    [stats |-> update_request_stats(stats, "external"), status |-> 200,
     body |-> fetch_external_data_mock("https://api.example.com/data", t)]

\* str.upper() and str.lower() on the ASCII letters; every other character
\* of the model's inputs is left as it is.
LowerCase == <<"a", "b", "c", "d", "e", "f", "g", "h", "i", "j", "k", "l", "m",
               "n", "o", "p", "q", "r", "s", "t", "u", "v", "w", "x", "y", "z">>

UpperCase == <<"A", "B", "C", "D", "E", "F", "G", "H", "I", "J", "K", "L", "M",
               "N", "O", "P", "Q", "R", "S", "T", "U", "V", "W", "X", "Y", "Z">>

upper(s) ==
    [i \in 1..Len(s) |->
        IF \E k \in 1..Len(LowerCase) : LowerCase[k] = s[i]
        THEN UpperCase[CHOOSE k \in 1..Len(LowerCase) : LowerCase[k] = s[i]]
        ELSE s[i]]

lower(s) ==
    [i \in 1..Len(s) |->
        IF \E k \in 1..Len(UpperCase) : UpperCase[k] = s[i]
        THEN LowerCase[CHOOSE k \in 1..Len(UpperCase) : UpperCase[k] = s[i]]
        ELSE s[i]]

\* round(x, ndigits) for a rational x: the nearest multiple of 1/scale, where
\* scale = 10^ndigits, an exact tie to the even one.  The result is the
\* number of 1/scale units.
round_ndigits(x, scale) ==
    LET n == x.num * scale
        q == n \div x.den
        r == n % x.den
    IN  IF 2 * r < x.den THEN q
        ELSE IF 2 * r > x.den THEN q + 1
        ELSE IF q % 2 = 0 THEN q ELSE q + 1

UniformSteps == 7

\* random.uniform(a, b): a + (b - a) * u for some u in [0, 1]; the model
\* draws u from the multiples of 1/UniformSteps.
uniform(a, b) ==
    {Rational(a.num * b.den * UniformSteps
                  + (b.num * a.den - a.num * b.den) * k,
              a.den * b.den * UniformSteps) : k \in 0..UniformSteps}

\* random.randint(a, b): any integer of a..b.
randint(a, b) == a..b

USD == <<"U", "S", "D">>

EUR == <<"E", "U", "R">>

GBP == <<"G", "B", "P">>

\* The static table of rates, in ten-thousandths.
CURRENCY_RATES ==
    (<<USD, EUR>> :> 8500) @@ (<<USD, GBP>> :> 7900) @@ (<<EUR, USD>> :> 11800)
        @@ (<<EUR, GBP>> :> 9300) @@ (<<GBP, USD>> :> 12700)
        @@ (<<GBP, EUR>> :> 10800)

\* The rates a call can return, in ten-thousandths (1.0 is 10000).
get_currency_rate_compares_raw(base, target) ==
    LET base_upper == upper(base)
        target_upper == upper(target)
        key == <<base_upper, target_upper>>
    IN  IF base = target THEN {10000}
        ELSE IF key \in DOMAIN CURRENCY_RATES THEN {CURRENCY_RATES[key]}
        ELSE {round_ndigits(x, 10000) : x \in uniform(Rational(1, 2), Rational(2, 1))}

get_currency_rate(base, target) ==
    LET base_upper == upper(base)
        target_upper == upper(target)
        key == <<base_upper, target_upper>>
    IN  IF base_upper = target_upper THEN {10000}
        ELSE IF key \in DOMAIN CURRENCY_RATES THEN {CURRENCY_RATES[key]}
        ELSE {round_ndigits(x, 10000) : x \in uniform(Rational(1, 2), Rational(2, 1))}

\* CurrencyRateResponse: rate > 0, or a ValidationError, which is a
\* ValueError and is answered with 400.
get_currency(stats, base, target, rate, t) ==
    LET stats1 == update_request_stats(stats, "currency")
    IN  IF rate > 0
        THEN [stats |-> stats1, status |-> 200,
              body |-> [base_currency |-> upper(base),
                        target_currency |-> upper(target),
                        rate |-> rate, timestamp |-> t]]
        ELSE [stats |-> stats1, status |-> 400,
              body |-> [detail |-> "validation error"]]

\* The static table of weather: temperatures in tenths of a degree.
WEATHER_DATA ==
    (<<"m", "o", "s", "c", "o", "w">>
         :> [temperature |-> 155, condition |-> "Cloudy", humidity |-> 65])
    @@ (<<"l", "o", "n", "d", "o", "n">>
         :> [temperature |-> 120, condition |-> "Rainy", humidity |-> 80])
    @@ (<<"t", "o", "k", "y", "o">>
         :> [temperature |-> 220, condition |-> "Sunny", humidity |-> 55])
    @@ (<<"n", "e", "w", "y", "o", "r", "k">>
         :> [temperature |-> 180, condition |-> "Partly Cloudy", humidity |-> 70])

\* The weather data a call can return.
get_weather_async_exact_case(city) ==
    LET city_lower == lower(city)
    IN  IF city \notin DOMAIN WEATHER_DATA
        THEN {[temperature |-> round_ndigits(x, 10), condition |-> c,
               humidity |-> h] :
                 x \in uniform(Rational(-10, 1), Rational(35, 1)),
                 c \in {"Sunny", "Cloudy", "Rainy", "Partly Cloudy"},
                 h \in randint(30, 90)}
        ELSE {WEATHER_DATA[city]}

get_weather_async(city) ==
    LET city_lower == lower(city)
    IN  IF city_lower \notin DOMAIN WEATHER_DATA
        THEN {[temperature |-> round_ndigits(x, 10), condition |-> c,
               humidity |-> h] :
                 x \in uniform(Rational(-10, 1), Rational(35, 1)),
                 c \in {"Sunny", "Cloudy", "Rainy", "Partly Cloudy"},
                 h \in randint(30, 90)}
        ELSE {WEATHER_DATA[city_lower]}

\* WeatherResponse: 0 <= humidity <= 100, or a ValidationError, which the
\* handler answers with 500.
get_weather(stats, city, weather_data, t) ==
    LET stats1 == update_request_stats(stats, "weather")
    IN  IF weather_data.humidity >= 0 /\ weather_data.humidity <= 100
        THEN [stats |-> stats1, status |-> 200,
              body |-> [city |-> city,
                        temperature |-> weather_data.temperature,
                        condition |-> weather_data.condition,
                        humidity |-> weather_data.humidity,
                        timestamp |-> t]]
        ELSE [stats |-> stats1, status |-> 500,
              body |-> [detail |-> "Failed to fetch weather data"]]

(***************************************************************************)
(* The inputs of the model.                                                *)
(***************************************************************************)
Endpoints == {"root", "system_info", "weather", "currency", "joke", "stats",
              "random_uuid", "random_quote", "validate", "protected",
              "process", "get_cache", "set_cache", "external"}

Keys == {"k1", "k2"}

CacheValues == {JsonNull, JsonObject({}), JsonObject({<<"a", 1>>}),
                JsonObject({<<"b", 2>>})}

\* The X-API-Key header: absent (None) or Some(value).
Headers == {None, Some(api_key), Some("wrong-key"), Some("")}

\* str(uuid4()): any identifier.
UUIDs == {"uuid-1", "uuid-2"}

Repeat(c, n) == [i \in 1..n |-> c]

JohnDoe == <<"J", "o", "h", "n", " ", "D", "o", "e">>

JohnEmail == <<"j", "o", "h", "n", "@", "e", "x", "a", "m", "p", "l", "e", ".", "c", "o", "m">>

BadEmail == <<"i", "n", "v", "a", "l", "i", "d", "-", "e", "m", "a", "i", "l">>

NoTldEmail == <<"j", "o", "h", "n", "@", "e", "x", "a", "m", "p", "l", "e">>

Names == {<<>>, JohnDoe, Repeat("x", MinNameLength), Repeat("x", MaxNameLength),
          Repeat("x", MaxNameLength + 1)}

Ages == {MinAge - 1, MinAge, AdultAge - 1, AdultAge, 30, MaxAge, MaxAge + 1}

Emails == {JohnEmail, BadEmail, NoTldEmail}

TagPool == << <<"d", "e", "v">>, <<" ", "p", "y", " ">>, <<" ">>, <<>> >>

\* A raw tag list of the given length that walks TagPool with a stride:
\* stride 0 is all non-blank, the other strides mix in blank entries.
TagList(len, stride) ==
    [i \in 1..len |-> TagPool[((i * stride) % Len(TagPool)) + 1]]

MaxRawTags == 12

TagLists == {TagList(len, stride) : len \in 0..MaxRawTags, stride \in 0..3}
                \cup {TagList(MaxTags, 0) \o << <<" ">> >>}

ValidateBodies ==
    [name : Names, age : Ages, email : Emails,
     tags : {None} \cup {Some(tags) : tags \in TagLists},
     strict : BOOLEAN]

SmallValidateBodies ==
    {[name |-> JohnDoe, age |-> age, email |-> JohnEmail,
      tags |-> Some(TagList(2, 1)), strict |-> FALSE] : age \in {30, 200}}

Numbers == {-3, 1, 2, 4}

MaxLen == 3

RECURSIVE SeqsUpTo(_, _)
SeqsUpTo(S, n) ==
    IF n = 0 THEN {<<>>}
    ELSE LET shorter == SeqsUpTo(S, n - 1)
         IN  shorter \cup {Append(q, x) : q \in shorter, x \in S}

NumberLists == SeqsUpTo(Numbers, MaxLen)
                   \cup {Repeat(1, MaxNumbers + 1), <<1, 2, 3, 4, 5>>,
                         <<10, 20, 30>>}

Multipliers == {None, Some(Rational(1, 2)), Some(Rational(2, 1)),
                Some(Rational(3, 2)), Some(Rational(0, 1)),
                Some(Rational(-1, 1))}

ProcessBodies ==
    [numbers : NumberLists, operation : Operations \cup {"invalid_op"},
     multiplier : Multipliers]

\* Currency codes in several spellings, tabled and not.
Currencies == {USD, <<"u", "s", "d">>, <<"U", "s", "d">>, EUR, <<"e", "u", "r">>,
               GBP, <<"g", "b", "p">>, <<"J", "P", "Y">>, <<"j", "p", "y">>,
               <<"x", "-", "1">>}

CurrencyRequests == [base : Currencies, target : Currencies]

\* City names in several spellings, tabled and not.
Cities == {<<"m", "o", "s", "c", "o", "w">>, <<"M", "o", "s", "c", "o", "w">>,
           <<"M", "O", "S", "C", "O", "W">>, <<"l", "o", "n", "d", "o", "n">>,
           <<"L", "o", "n", "d", "o", "n">>, <<"t", "o", "k", "y", "o">>,
           <<"T", "O", "K", "Y", "O">>, <<"n", "e", "w", "y", "o", "r", "k">>,
           <<"N", "e", "w", "Y", "o", "r", "k">>,
           <<"N", "e", "w", " ", "Y", "o", "r", "k">>,
           <<"p", "a", "r", "i", "s">>, <<"P", "a", "r", "i", "s">>,
           <<"c", "i", "t", "y", "1", "2", "3">>}

CityRequests == [city : Cities]

\* A tabled pair, an identical pair in two spellings and an untabled pair.
SmallCurrencyRequests ==
    {[base |-> USD, target |-> EUR], [base |-> <<"u", "s", "d">>, target |-> USD],
     [base |-> <<"J", "P", "Y">>, target |-> USD]}

\* A tabled city in two spellings.
SmallCityRequests ==
    {[city |-> <<"m", "o", "s", "c", "o", "w">>],
     [city |-> <<"M", "o", "s", "c", "o", "w">>]}

SmallProcessBodies ==
    {[numbers |-> <<1, 2, 3>>, operation |-> op, multiplier |-> None] :
        op \in {"sum", "invalid_op"}}

(***************************************************************************)
(* The state machine.                                                      *)
(***************************************************************************)
\* The worker threads that run the def handlers; each serves one request.
MaxThreads == 3

Threads == 1..MaxThreads

\* A thread that serves no request yet: no request, empty locals.
IdleThread ==
    [pc |-> "idle", endpoint |-> "none", key |-> "none", value |-> JsonNull,
     count |-> 0, total |-> 0, endpoint_counts |-> EmptyDict, entry |-> None,
     invoked |-> 0]

\* The requests that run concurrently: two values set under one key, a get
\* of that key, a joke and the statistics.
ConcurrentRequests ==
    {[endpoint |-> "joke", key |-> "none", value |-> JsonNull],
     [endpoint |-> "stats", key |-> "none", value |-> JsonNull],
     [endpoint |-> "get_cache", key |-> "k1", value |-> JsonNull],
     [endpoint |-> "set_cache", key |-> "k1", value |-> JsonObject({<<"a", 1>>})],
     [endpoint |-> "set_cache", key |-> "k1", value |-> JsonObject({<<"b", 2>>})]}

\* The race on one cache key: two sets of different values and a get, one
\* thread each.
CacheRaceRequests ==
    <<[endpoint |-> "set_cache", key |-> "k1", value |-> JsonObject({<<"a", 1>>})],
      [endpoint |-> "set_cache", key |-> "k1", value |-> JsonObject({<<"b", 2>>})],
      [endpoint |-> "get_cache", key |-> "k1", value |-> JsonNull]>>

NoResponse == [endpoint |-> "none", request |-> <<>>, status |-> 0, body |-> <<>>]

Init ==
    /\ _request_stats = EmptyDict
    /\ _in_memory_cache = EmptyDict
    /\ now = 0
    /\ response = NoResponse
    /\ received = [e \in Endpoints |-> 0]
    /\ called = [e \in Endpoints |-> 0]
    /\ pre = [stats |-> EmptyDict, cache |-> EmptyDict]
    /\ last_set = EmptyDict
    /\ threads = [t \in Threads |-> IdleThread]
    /\ built = {}

Total(counts) ==
    counts["joke"] + counts["random_uuid"] + counts["stats"] + counts["validate"]
        + counts["protected"] + counts["process"] + counts["get_cache"]
        + counts["set_cache"] + counts["root"] + counts["system_info"]
        + counts["weather"] + counts["currency"] + counts["random_quote"]
        + counts["external"]

\* The clock advances between requests.
Tick ==
    /\ now < MaxTime
    /\ now' = now + 1
    /\ UNCHANGED <<_request_stats, _in_memory_cache, response, received, called,
                   pre, last_set, threads, built>>

\* The handler of the endpoint ran and left the mappings stats2 and cache2.
Served(endpoint, request, stats2, cache2, status, body) ==
    /\ Total(received) < MaxRequests
    /\ _request_stats' = stats2
    /\ _in_memory_cache' = cache2
    /\ response' = [endpoint |-> endpoint, request |-> request,
                    status |-> status, body |-> body]
    /\ received' = [received EXCEPT ![endpoint] = @ + 1]
    /\ called' = [called EXCEPT ![endpoint] = @ + 1]
    /\ pre' = [stats |-> _request_stats, cache |-> _in_memory_cache]
    /\ UNCHANGED <<now, threads, built>>

\* FastAPI could not build the handler's arguments from the request: it
\* answers 422 and the handler is never called.
Rejected(endpoint, request) ==
    /\ Total(received) < MaxRequests
    /\ response' = [endpoint |-> endpoint, request |-> request,
                    status |-> 422, body |-> [detail |-> "validation error"]]
    /\ received' = [received EXCEPT ![endpoint] = @ + 1]
    /\ pre' = [stats |-> _request_stats, cache |-> _in_memory_cache]
    /\ UNCHANGED <<_request_stats, _in_memory_cache, now, called, last_set,
                   threads, built>>

Joke(joke_data) ==
    LET r == get_joke(_request_stats, joke_data)
    IN  /\ Served("joke", <<>>, r.stats, _in_memory_cache, r.status, r.body)
        /\ UNCHANGED last_set

RandomUuid(uuid) ==
    LET r == get_random_uuid(_request_stats, uuid)
    IN  /\ Served("random_uuid", <<>>, r.stats, _in_memory_cache, r.status, r.body)
        /\ UNCHANGED last_set

Stats ==
    LET r == get_stats(_request_stats, _in_memory_cache)
    IN  /\ Served("stats", <<>>, r.stats, r.cache, r.status, r.body)
        /\ UNCHANGED last_set

Validate(body) ==
    LET request == ValidationRequest(body)
        r == validate_data(_request_stats, Unwrap(request), body.strict)
    IN  IF request = None
        THEN Rejected("validate", body)
        ELSE /\ Served("validate", body, r.stats, _in_memory_cache, r.status,
                       r.body)
             /\ UNCHANGED last_set

Protected(header, uuid) ==
    LET r == get_protected_resource(_request_stats, Unwrap(header), uuid, now)
    IN  IF header = None
        THEN Rejected("protected", [x_api_key |-> header])
        ELSE /\ Served("protected", [x_api_key |-> header], r.stats,
                       _in_memory_cache, r.status, r.body)
             /\ UNCHANGED last_set

Process(body) ==
    LET request == ProcessDataRequest(body)
        r == process_data(_request_stats, Unwrap(request), now)
    IN  IF request = None
        THEN Rejected("process", body)
        ELSE /\ Served("process", body, r.stats, _in_memory_cache, r.status,
                       r.body)
             /\ UNCHANGED last_set

GetCache(key) ==
    LET r == get_cache(_request_stats, _in_memory_cache, key, now)
    IN  /\ Served("get_cache", [key |-> key], r.stats, r.cache, r.status, r.body)
        /\ UNCHANGED last_set

\* The body is required (Body(...)): a request without one is rejected.
SetCache(key, value) ==
    LET r == set_cache(_request_stats, _in_memory_cache, key, Unwrap(value), now)
    IN  IF value = None
        THEN Rejected("set_cache", [key |-> key, value |-> value])
        ELSE /\ Served("set_cache", [key |-> key, value |-> value], r.stats,
                       r.cache, r.status, r.body)
             /\ last_set' = DictSet(last_set, key,
                                    [value |-> Unwrap(value),
                                     created_at |-> r.body.created_at])

Currency(request, rate) ==
    LET r == get_currency(_request_stats, request.base, request.target, rate, now)
    IN  /\ Served("currency", request, r.stats, _in_memory_cache, r.status,
                  r.body)
        /\ UNCHANGED last_set

Weather(request, weather_data) ==
    LET r == get_weather(_request_stats, request.city, weather_data, now)
    IN  /\ Served("weather", request, r.stats, _in_memory_cache, r.status,
                  r.body)
        /\ UNCHANGED last_set

Next ==
    \/ Tick
    \/ \E joke_data \in get_random_joke : Joke(joke_data)
    \/ \E uuid \in UUIDs : RandomUuid(uuid)
    \/ Stats
    \/ \E body \in SmallValidateBodies : Validate(body)
    \/ \E header \in Headers, uuid \in UUIDs : Protected(header, uuid)
    \/ \E body \in SmallProcessBodies : Process(body)
    \/ \E key \in Keys : GetCache(key)
    \/ \E key \in Keys, value \in {None} \cup {Some(v) : v \in CacheValues} :
           SetCache(key, value)

Spec == Init /\ [][Next]_vars

\* A request has arrived and waits for its handler.
Pending(endpoint, body) ==
    [endpoint |-> "pending", request |-> body, status |-> 0,
     body |-> [for |-> endpoint]]

InitPending(endpoint, bodies) ==
    /\ _request_stats = EmptyDict
    /\ _in_memory_cache = EmptyDict
    /\ now = 0
    /\ response \in {Pending(endpoint, body) : body \in bodies}
    /\ received = [e \in Endpoints |-> 0]
    /\ called = [e \in Endpoints |-> 0]
    /\ pre = [stats |-> EmptyDict, cache |-> EmptyDict]
    /\ last_set = EmptyDict
    /\ threads = [t \in Threads |-> IdleThread]
    /\ built = {}

\* The process endpoint alone: one request, over all the bounded bodies.
InitProcess == InitPending("process", ProcessBodies)

ProcessPending ==
    /\ response.endpoint = "pending"
    /\ Process(response.request)

NextProcess ==
    \/ Tick
    \/ ProcessPending

SpecProcess == InitProcess /\ [][NextProcess]_vars

\* The validate endpoint alone: one request, over all the bounded bodies.
InitValidate == InitPending("validate", ValidateBodies)

ValidatePending ==
    /\ response.endpoint = "pending"
    /\ Validate(response.request)

NextValidate ==
    \/ Tick
    \/ ValidatePending

SpecValidate == InitValidate /\ [][NextValidate]_vars

(***************************************************************************)
(* The def handlers run in the threads of a pool, and a thread can be      *)
(* switched out between any two of its accesses to the mappings.  One step *)
(* of a thread is one access: a dict read (get, values, copy, len), a dict *)
(* store, or the clock reading that builds an entry.                       *)
(***************************************************************************)
Finished == \A t \in Threads : threads[t].pc \in {"idle", "done"}

\* A request arrives and a free thread takes it; the free threads are
\* interchangeable, so the lowest one does.
Start(t, request) ==
    /\ threads[t].pc = "idle"
    /\ \A u \in Threads : u < t => threads[u].pc # "idle"
    /\ received' = [received EXCEPT ![request.endpoint] = @ + 1]
    /\ called' = [called EXCEPT ![request.endpoint] = @ + 1]
    /\ threads' = [threads EXCEPT ![t] =
                       [@ EXCEPT !.pc = "read_stats",
                                 !.endpoint = request.endpoint,
                                 !.key = request.key,
                                 !.value = request.value,
                                 !.invoked = Total(called) + 1]]
    /\ UNCHANGED <<_request_stats, _in_memory_cache, now, response, pre,
                   last_set, built>>

\* The request of the cache race that is the thread's own arrives, at any
\* time.
StartOwn(t) ==
    LET request == CacheRaceRequests[t]
    IN  /\ threads[t].pc = "idle"
        /\ received' = [received EXCEPT ![request.endpoint] = @ + 1]
        /\ called' = [called EXCEPT ![request.endpoint] = @ + 1]
        /\ threads' = [threads EXCEPT ![t] =
                           [@ EXCEPT !.pc = "read_stats",
                                     !.endpoint = request.endpoint,
                                     !.key = request.key,
                                     !.value = request.value,
                                     !.invoked = Total(called) + 1]]
        /\ UNCHANGED <<_request_stats, _in_memory_cache, now, response, pre,
                       last_set, built>>

\* update_request_stats: _request_stats.get(endpoint, 0) ...
ReadStats(t) ==
    /\ threads[t].pc = "read_stats"
    /\ threads' = [threads EXCEPT ![t] =
                       [@ EXCEPT !.pc = "write_stats",
                                 !.count = DictGet(_request_stats,
                                                   threads[t].endpoint, 0)]]
    /\ UNCHANGED <<_request_stats, _in_memory_cache, now, response, received,
                   called, pre, last_set, built>>

\* ... and _request_stats[endpoint] = <what was read> + 1.
WriteStats(t) ==
    /\ threads[t].pc = "write_stats"
    /\ _request_stats' = DictSet(_request_stats, threads[t].endpoint,
                                 threads[t].count + 1)
    /\ pre' = [stats |-> _request_stats, cache |-> _in_memory_cache]
    /\ threads' = [threads EXCEPT ![t].pc =
                       CASE threads[t].endpoint = "joke" -> "respond"
                         [] threads[t].endpoint = "stats" -> "sum"
                         [] threads[t].endpoint = "get_cache" -> "lookup"
                         [] threads[t].endpoint = "set_cache" -> "build"]
    /\ UNCHANGED <<_in_memory_cache, now, response, received, called, last_set,
                   built>>

\* get_statistics: total = sum(_request_stats.values())
SumStats(t) ==
    /\ threads[t].pc = "sum"
    /\ threads' = [threads EXCEPT ![t] =
                       [@ EXCEPT !.pc = "copy",
                                 !.total = DictValuesSum(_request_stats)]]
    /\ UNCHANGED <<_request_stats, _in_memory_cache, now, response, received,
                   called, pre, last_set, built>>

\* get_statistics: _request_stats.copy()
CopyStats(t) ==
    /\ threads[t].pc = "copy"
    /\ threads' = [threads EXCEPT ![t] =
                       [@ EXCEPT !.pc = "len",
                                 !.endpoint_counts = _request_stats]]
    /\ UNCHANGED <<_request_stats, _in_memory_cache, now, response, received,
                   called, pre, last_set, built>>

\* get_statistics: len(_in_memory_cache), and the response of get_stats.
LenCache(t) ==
    /\ threads[t].pc = "len"
    /\ response' = [endpoint |-> "stats",
                    request |-> [invoked |-> threads[t].invoked],
                    status |-> 200,
                    body |-> [total_requests |-> threads[t].total,
                              endpoint_counts |-> threads[t].endpoint_counts,
                              average_response_time_ms |-> 0,
                              cache_size |-> Cardinality(DOMAIN _in_memory_cache)]]
    /\ threads' = [threads EXCEPT ![t].pc = "done"]
    /\ UNCHANGED <<_request_stats, _in_memory_cache, now, received, called,
                   pre, last_set, built>>

\* get_joke: random.choice and the response.
RespondJoke(t, joke_data) ==
    /\ threads[t].pc = "respond"
    /\ threads[t].endpoint = "joke"
    /\ response' = [endpoint |-> "joke", request |-> <<>>, status |-> 200,
                    body |-> joke_data]
    /\ threads' = [threads EXCEPT ![t].pc = "done"]
    /\ UNCHANGED <<_request_stats, _in_memory_cache, now, received, called,
                   pre, last_set, built>>

\* get_cache_value: _in_memory_cache.get(key)
Lookup(t) ==
    /\ threads[t].pc = "lookup"
    /\ threads' = [threads EXCEPT ![t] =
                       [@ EXCEPT !.pc = "respond",
                                 !.entry = get_cache_value(_in_memory_cache,
                                                           threads[t].key)]]
    /\ UNCHANGED <<_request_stats, _in_memory_cache, now, response, received,
                   called, pre, last_set, built>>

\* get_cache: the response from the entry it looked up.
RespondGetCache(t) ==
    /\ threads[t].pc = "respond"
    /\ threads[t].endpoint = "get_cache"
    /\ response' =
           [endpoint |-> "get_cache", request |-> [key |-> threads[t].key],
            status |-> 200,
            body |-> IF threads[t].entry = None
                     THEN [key |-> threads[t].key, value |-> JsonNull,
                           created_at |-> now, exists |-> FALSE]
                     ELSE [key |-> threads[t].key,
                           value |-> Unwrap(threads[t].entry).value,
                           created_at |-> Unwrap(threads[t].entry).created_at,
                           exists |-> TRUE]]
    /\ threads' = [threads EXCEPT ![t].pc = "done"]
    /\ UNCHANGED <<_request_stats, _in_memory_cache, now, received, called,
                   pre, last_set, built>>

\* set_cache_value: the entry is built, with the clock read.
BuildEntry(t) ==
    LET entry == new_cache_entry(threads[t].value, now)
    IN  /\ threads[t].pc = "build"
        /\ threads' = [threads EXCEPT ![t] =
                           [@ EXCEPT !.pc = "store", !.entry = Some(entry)]]
        /\ built' = built \cup {[thread |-> t, key |-> threads[t].key,
                                 entry |-> entry]}
        /\ UNCHANGED <<_request_stats, _in_memory_cache, now, response,
                       received, called, pre, last_set>>

\* set_cache_value: _in_memory_cache[key] = entry
StoreEntry(t) ==
    /\ threads[t].pc = "store"
    /\ _in_memory_cache' = store_cache_entry(_in_memory_cache, threads[t].key,
                                             Unwrap(threads[t].entry))
    /\ pre' = [stats |-> _request_stats, cache |-> _in_memory_cache]
    /\ threads' = [threads EXCEPT ![t].pc = "respond"]
    /\ UNCHANGED <<_request_stats, now, response, received, called, last_set,
                   built>>

\* set_cache: the response from the entry set_cache_value returned.
RespondSetCache(t) ==
    /\ threads[t].pc = "respond"
    /\ threads[t].endpoint = "set_cache"
    /\ response' =
           [endpoint |-> "set_cache",
            request |-> [key |-> threads[t].key, value |-> Some(threads[t].value),
                         thread |-> t],
            status |-> 200,
            body |-> [key |-> threads[t].key,
                      value |-> Unwrap(threads[t].entry).value,
                      created_at |-> Unwrap(threads[t].entry).created_at,
                      exists |-> TRUE]]
    /\ threads' = [threads EXCEPT ![t].pc = "done"]
    /\ UNCHANGED <<_request_stats, _in_memory_cache, now, received, called,
                   pre, last_set, built>>

NextConcurrent ==
    \/ Tick
    \/ \E t \in Threads :
           \/ \E request \in ConcurrentRequests : Start(t, request)
           \/ ReadStats(t)
           \/ WriteStats(t)
           \/ SumStats(t)
           \/ CopyStats(t)
           \/ LenCache(t)
           \/ \E joke_data \in get_random_joke : RespondJoke(t, joke_data)
           \/ Lookup(t)
           \/ RespondGetCache(t)
           \/ BuildEntry(t)
           \/ StoreEntry(t)
           \/ RespondSetCache(t)

SpecConcurrent == Init /\ [][NextConcurrent]_vars

\* The set and get handlers alone, racing on one key.
NextCacheRace ==
    \/ Tick
    \/ \E t \in Threads :
           \/ t \in DOMAIN CacheRaceRequests /\ StartOwn(t)
           \/ ReadStats(t)
           \/ WriteStats(t)
           \/ Lookup(t)
           \/ RespondGetCache(t)
           \/ BuildEntry(t)
           \/ StoreEntry(t)
           \/ RespondSetCache(t)

SpecCacheRace == Init /\ [][NextCacheRace]_vars

Root ==
    LET r == root(_request_stats)
    IN  /\ Served("root", <<>>, r.stats, _in_memory_cache, r.status, r.body)
        /\ UNCHANGED last_set

SystemInfo ==
    LET r == system_info(_request_stats, now)
    IN  /\ Served("system_info", <<>>, r.stats, _in_memory_cache, r.status,
                  r.body)
        /\ UNCHANGED last_set

Quote(quote_data) ==
    LET r == get_quote(_request_stats, quote_data)
    IN  /\ Served("random_quote", <<>>, r.stats, _in_memory_cache, r.status,
                  r.body)
        /\ UNCHANGED last_set

External ==
    LET r == external_data(_request_stats, now)
    IN  /\ Served("external", <<>>, r.stats, _in_memory_cache, r.status,
                  r.body)
        /\ UNCHANGED last_set

\* The whole router: every endpoint, one request after another.
MaxRouterRequests == 2

RouterRequest ==
    /\ Total(received) < MaxRouterRequests
    /\ \/ Root
       \/ SystemInfo
       \/ \E quote_data \in get_random_quote : Quote(quote_data)
       \/ External
       \/ \E request \in SmallCurrencyRequests :
              \E rate \in get_currency_rate(request.base, request.target) :
                  Currency(request, rate)
       \/ \E request \in SmallCityRequests :
              \E weather_data \in get_weather_async(request.city) :
                  Weather(request, weather_data)
       \/ \E joke_data \in get_random_joke : Joke(joke_data)
       \/ \E uuid \in UUIDs : RandomUuid(uuid)
       \/ Stats
       \/ \E body \in SmallValidateBodies : Validate(body)
       \/ \E header \in Headers, uuid \in UUIDs : Protected(header, uuid)
       \/ \E body \in SmallProcessBodies : Process(body)
       \/ \E key \in Keys : GetCache(key)
       \/ \E key \in Keys, value \in {None} \cup {Some(v) : v \in CacheValues} :
              SetCache(key, value)

NextRouter ==
    \/ Tick
    \/ RouterRequest

SpecRouter == Init /\ [][NextRouter]_vars

\* The currency endpoint alone: one request, over all the bounded pairs.
InitCurrency == InitPending("currency", CurrencyRequests)

CurrencyPending ==
    /\ response.endpoint = "pending"
    /\ \E rate \in get_currency_rate(response.request.base,
                                     response.request.target) :
           Currency(response.request, rate)

NextCurrency ==
    \/ Tick
    \/ CurrencyPending

SpecCurrency == InitCurrency /\ [][NextCurrency]_vars

\* The weather endpoint alone: one request, over all the bounded cities.
InitWeather == InitPending("weather", CityRequests)

WeatherPending ==
    /\ response.endpoint = "pending"
    /\ \E weather_data \in get_weather_async(response.request.city) :
           Weather(response.request, weather_data)

NextWeather ==
    \/ Tick
    \/ WeatherPending

SpecWeather == InitWeather /\ [][NextWeather]_vars

(***************************************************************************)
(* Properties.                                                             *)
(***************************************************************************)
Count(stats, endpoint) == DictGet(stats, endpoint, 0)

ObjectA == JsonObject({<<"a", 1>>})

ObjectB == JsonObject({<<"b", 2>>})

\* C1: a GET of a key that has been set answers 200 with exists = TRUE, the
\* value exactly as the last set of that key sent it, and the created_at
\* that set returned, whatever was requested in between.
CacheRoundTrip ==
    (response.endpoint = "get_cache" /\ response.request.key \in DOMAIN last_set)
        => /\ response.status = 200
           /\ response.body.exists = TRUE
           /\ response.body.value = last_set[response.request.key].value
           /\ response.body.created_at = last_set[response.request.key].created_at

\* A set of ObjectA, another request, the clock advanced, then the GET.
CacheRoundTripWitness ==
    /\ response.endpoint = "get_cache"
    /\ response.body.exists = TRUE
    /\ response.body.value = ObjectA
    /\ response.body.created_at < now
    /\ received["set_cache"] = 1
    /\ Total(received) = 3

StatsCountCalls ==
    /\ DOMAIN _request_stats \subseteq Endpoints
    /\ \A e \in Endpoints :
          /\ Count(_request_stats, e) = called[e]
          /\ (e \in DOMAIN _request_stats <=> called[e] > 0)

\* Two calls of one endpoint with a call of another one among them.
StatsCountCallsWitness ==
    /\ called["joke"] = 2
    /\ called["get_cache"] = 1
    /\ response.endpoint = "joke"
    /\ pre.stats = [e \in {"joke", "get_cache"} |-> 1]

\* C5: the cache_size that /api/stats reports, and would report in every
\* state, is the number of distinct keys ever set.
CacheSizeCountsDistinctKeys ==
    /\ get_statistics(_request_stats, _in_memory_cache).cache_size
           = Cardinality(DOMAIN last_set)
    /\ (response.endpoint = "stats"
           => response.body.cache_size = Cardinality(DOMAIN last_set))

\* Two sets of the same key, then the stats request: cache_size is 1.
CacheSizeWitness ==
    /\ response.endpoint = "stats"
    /\ response.body.cache_size = 1
    /\ called["set_cache"] = 2

\* C6, as stated: every request to an endpoint, whatever its response,
\* raises the counter of that endpoint by exactly one.
EveryRequestCounted ==
    response.endpoint \in Endpoints
        => Count(_request_stats, response.endpoint)
               = Count(pre.stats, response.endpoint) + 1

\* C6, amended: a request that is not answered 422 raises the counter of
\* its endpoint by exactly one and no other counter, whether it ends in 200
\* or in an error the handler raises; a request answered 422 never reaches
\* its handler and leaves every counter as it was.
HandledRequestCounted ==
    response.endpoint \in Endpoints
        => IF response.status = 422
           THEN _request_stats = pre.stats
           ELSE /\ response.status \in {200, 400, 401}
                /\ \A e \in Endpoints :
                      Count(_request_stats, e)
                          = Count(pre.stats, e)
                               + (IF e = response.endpoint THEN 1 ELSE 0)

\* A request with a wrong key: answered 401 and counted.
HandledRequestCountedWitness ==
    /\ response.endpoint = "protected"
    /\ response.status = 401
    /\ Count(_request_stats, "protected") = Count(pre.stats, "protected") + 1

\* C7: /api/protected answers 200 with the success payload exactly when the
\* header is present and equal to the configured key; any other header
\* value gets 401 "Invalid API key", an absent header 422; this holds of
\* every request, whatever came before it.
ProtectedFailsClosed ==
    response.endpoint = "protected"
        => LET header == response.request.x_api_key
           IN  /\ (response.status = 200 <=> header = Some(api_key))
               /\ (header = Some(api_key)
                      => /\ response.body.message
                                = "Access granted to protected resource"
                         /\ response.body.resource_id \in UUIDs
                         /\ response.body.access_time <= now
                         /\ response.body.permissions = <<"read", "write">>)
               /\ ((header # None /\ header # Some(api_key))
                      => /\ response.status = 401
                         /\ response.body = [detail |-> "Invalid API key"])
               /\ (header = None => response.status = 422)

\* A wrong key is refused after two earlier requests to the endpoint.
ProtectedFailsClosedWitness ==
    /\ response.endpoint = "protected"
    /\ response.request.x_api_key = Some("wrong-key")
    /\ response.status = 401
    /\ received["protected"] = 3
    /\ called["protected"] = 2

\* The request bodies that break no constraint other than, possibly, the
\* one on the operation.
OtherwiseValidProcessBody(body) ==
    /\ Len(body.numbers) >= 1
    /\ Len(body.numbers) <= 100
    /\ (body.multiplier # None => Unwrap(body.multiplier).num > 0)

\* C8: a process request that is valid but for its operation is answered
\* 400.
InvalidOperationIs400 ==
    (/\ response.endpoint = "process"
     /\ OtherwiseValidProcessBody(response.request)
     /\ response.request.operation \notin {"sum", "average", "max", "min"})
        => response.status = 400

Range(q) == {q[i] : i \in DOMAIN q}

RECURSIVE ReferenceTotal(_)
ReferenceTotal(q) == IF q = <<>> THEN 0 ELSE Head(q) + ReferenceTotal(Tail(q))

\* The exact value the claim names, as a rational number.
Reference(numbers, operation, multiplier) ==
    LET extremal(better(_, _)) ==
            CHOOSE x \in Range(numbers) : \A y \in Range(numbers) : better(x, y)
        ge(x, y) == x >= y
        le(x, y) == x <= y
        value == CASE operation = "sum" -> Rational(ReferenceTotal(numbers), 1)
                   [] operation = "average" ->
                          Rational(ReferenceTotal(numbers), Len(numbers))
                   [] operation = "max" -> Rational(extremal(ge), 1)
                   [] operation = "min" -> Rational(extremal(le), 1)
    IN  Rational(value.num * multiplier.num, value.den * multiplier.den)

Abs(n) == IF n < 0 THEN -n ELSE n

\* hundredths is a nearest number of hundredths to the rational x.
NearestHundredths(hundredths, x) ==
    2 * Abs(hundredths * x.den - 100 * x.num) <= x.den

\* C9: for 1 to 100 integer-valued numbers, an operation among sum,
\* average, max and min and a positive multiplier (1 when omitted), the
\* response is 200, echoes the operation, counts the entries, and its
\* result is the reference value times the multiplier rounded to 2 decimals.
ProcessComputesReference ==
    (/\ response.endpoint = "process"
     /\ OtherwiseValidProcessBody(response.request)
     /\ response.request.operation \in {"sum", "average", "max", "min"})
        => LET body == response.request
               multiplier == IF body.multiplier = None THEN Rational(1, 1)
                             ELSE Unwrap(body.multiplier)
           IN  /\ response.status = 200
               /\ response.body.operation = body.operation
               /\ response.body.input_count = Len(body.numbers)
               /\ NearestHundredths(
                      response.body.result,
                      Reference(body.numbers, body.operation, multiplier))

\* average of 1, 1, 2 times 1/2 is 0.666...: the result is 0.67.
ProcessComputesReferenceWitness ==
    /\ response.endpoint = "process"
    /\ response.request.numbers = <<1, 1, 2>>
    /\ response.request.operation = "average"
    /\ response.request.multiplier = Some(Rational(1, 2))
    /\ response.status = 200
    /\ response.body.result = 67

\* The raw entries that are not blank.
NonBlankEntries(tags) ==
    {i \in DOMAIN tags : \E j \in DOMAIN tags[i] : tags[i][j] # " "}

\* C10: a validate request with a valid name, age and email is rejected
\* exactly when more than 10 of its raw tags are not blank.
TagLimitAfterCleanup ==
    (/\ response.endpoint = "validate"
     /\ response.request.name = JohnDoe
     /\ response.request.age = 30
     /\ response.request.email = JohnEmail)
        => LET tags == IF response.request.tags = None THEN <<>>
                       ELSE Unwrap(response.request.tags)
           IN  (response.status = 422
                    <=> Cardinality(NonBlankEntries(tags)) > 10)

\* The raw tags of a validate body (none when the field is omitted).
RawTags(body) == IF body.tags = None THEN <<>> ELSE Unwrap(body.tags)

\* What follows the first "@" of an email.
AfterFirstAt(email) ==
    LET at == CHOOSE i \in Positions(email, "@") :
                  \A j \in Positions(email, "@") : i <= j
    IN  SubSeq(email, at + 1, Len(email))

\* C11: the processed_data of an accepted validate request is this function
\* of its input: the length of the name, "adult" from age 18 on and "minor"
\* below, what follows the first "@" of the email, the number of raw tags
\* that are not blank, and the strict flag, which shows nowhere else.
ProcessedDataOfInput ==
    (response.endpoint = "validate" /\ response.status = 200)
        => LET body == response.request
           IN  response.body =
                   [success |-> TRUE,
                    message |-> "Data validated successfully",
                    processed_data |->
                        [name_length |-> Len(body.name),
                         age_group |-> IF body.age >= 18 THEN "adult" ELSE "minor",
                         email_domain |-> Some(AfterFirstAt(body.email)),
                         tag_count |-> Cardinality(NonBlankEntries(RawTags(body))),
                         strict_mode |-> body.strict]]

\* Age 18 is an adult, and blank raw tags are not counted.
ProcessedDataOfInputWitness ==
    /\ response.endpoint = "validate"
    /\ response.status = 200
    /\ response.request.age = 18
    /\ response.request.strict = TRUE
    /\ response.body.processed_data.age_group = "adult"
    /\ response.body.processed_data.tag_count = 3
    /\ Len(RawTags(response.request)) = 6

\* C12: a validate request is answered with success exactly when its name
\* has 1 to 100 characters, its age is in 0..150, its email is email-shaped
\* and at most 10 of its tags are not blank; every other request gets 422.
ValidateAcceptsExactlyValid ==
    response.endpoint = "validate"
        => LET body == response.request
               valid == /\ Len(body.name) >= 1
                        /\ Len(body.name) <= 100
                        /\ body.age >= 0
                        /\ body.age <= 150
                        /\ EmailStr(body.email)
                        /\ Cardinality(NonBlankEntries(RawTags(body))) <= 10
           IN  IF valid
               THEN response.status = 200 /\ response.body.success = TRUE
               ELSE response.status = 422

NoLostUpdates ==
    Finished => \A e \in Endpoints : Count(_request_stats, e) = called[e]

\* C16: every counter of the stats mapping is at least 1, and no write to
\* the mappings decreases a counter or removes one.
CountersMonotone ==
    /\ \A e \in DOMAIN _request_stats : _request_stats[e] >= 1
    /\ \A e \in DOMAIN pre.stats :
           /\ e \in DOMAIN _request_stats
           /\ _request_stats[e] >= pre.stats[e]

\* C17: every statistics response is a consistent snapshot that includes
\* its own request: total_requests is the sum of endpoint_counts, the count
\* of "stats" is at least 1, and total_requests is the number of handler
\* invocations up to and including its own.
StatsSnapshotConsistent ==
    response.endpoint = "stats"
        => /\ response.body.total_requests
                  = DictValuesSum(response.body.endpoint_counts)
           /\ Count(response.body.endpoint_counts, "stats") >= 1
           /\ response.body.total_requests = response.request.invoked

\* C19: under concurrency every entry of the cache is the whole entry (value
\* with its created_at) that one set request of that key built; every set
\* response carries exactly the entry its own request built from its own
\* value; and a get observes either no entry or one such whole entry.
WholeEntries ==
    /\ \A k \in DOMAIN _in_memory_cache :
           \E b \in built : b.key = k /\ b.entry = _in_memory_cache[k]
    /\ response.endpoint = "set_cache"
           => \E b \in built :
                  /\ b.thread = response.request.thread
                  /\ b.key = response.body.key
                  /\ b.entry.value = Unwrap(response.request.value)
                  /\ b.entry = [value |-> response.body.value,
                                created_at |-> response.body.created_at,
                                exists |-> TRUE]
    /\ response.endpoint = "get_cache"
           => IF response.body.exists
              THEN \E b \in built :
                       /\ b.key = response.body.key
                       /\ b.entry = [value |-> response.body.value,
                                     created_at |-> response.body.created_at,
                                     exists |-> TRUE]
              ELSE response.body.value = JsonNull

\* Two sets of one key interleaved: the first thread built its entry at an
\* earlier time than the second but stored it later, and a get that ran
\* beside them observed the entry of the second.
WholeEntriesWitness ==
    /\ Finished
    /\ \E b1, b2 \in built :
           /\ b1.thread = 1
           /\ b2.thread = 2
           /\ b1.key = b2.key
           /\ b1.entry.value # b2.entry.value
           /\ b1.entry.created_at < b2.entry.created_at
           /\ _in_memory_cache[b1.key] = b1.entry
           /\ response.endpoint = "get_cache"
           /\ response.body.exists
           /\ response.body.value = b2.entry.value
           /\ response.body.created_at = b2.entry.created_at

\* C18: only a set changes the cache, and only the entry of its key: after
\* any other request (a get that hits or misses, a request answered with an
\* error, any other endpoint) the cache is what it was before the request,
\* and after a set of k every other key has the entry it had.
OnlySetChangesCache ==
    IF response.endpoint = "set_cache" /\ response.status = 200
    THEN \A k \in (DOMAIN pre.cache \cup DOMAIN _in_memory_cache)
                      \ {response.request.key} :
             /\ k \in DOMAIN pre.cache
             /\ k \in DOMAIN _in_memory_cache
             /\ _in_memory_cache[k] = pre.cache[k]
    ELSE _in_memory_cache = pre.cache

\* A get missed k2 while k1 was set, and left the cache with k1 alone.
OnlySetChangesCacheWitness ==
    /\ response.endpoint = "get_cache"
    /\ response.request.key = "k2"
    /\ ~response.body.exists
    /\ DOMAIN _in_memory_cache = {"k1"}
    /\ _in_memory_cache = pre.cache

====
